---- MODULE Spec2Model ----
(***************************************************************************)
(* Boomwhacker assignment search: the hand cost model (score_for_hand),    *)
(* the flat-list-plus-ranges assignment (FastAssignment), the randomised   *)
(* hill climbing with restarts (gradient_ascent, from_search) and the      *)
(* presentation step of Assignment::new; and the search of search.rs over  *)
(* HandAssignments, which cache their score.                               *)
(*                                                                         *)
(* Time is counted in milliseconds.  A score is an exact rational          *)
(* <<numerator, denominator>> in units of 1/second, kept in lowest terms   *)
(* with a positive denominator.                                            *)
(***************************************************************************)
EXTENDS Integers, Sequences, FiniteSets, TLC

VARIABLES
    music,            \* the schedule: note -> its whacks, sorted
    num_players,
    num_hands_arg,    \* the hand count the search divides the whackers over
    pc,               \* where Assignment::new (or search) is
    fault,            \* the panic that ended it, if any
    run,              \* restarts finished (the index of from_search's map)
    step,             \* iterations done in the current gradient_ascent
    assignment,       \* gradient_ascent's current assignment
    next_assignment,  \* gradient_ascent's scratch assignment
    best,             \* the accumulator of max_by_key, then from_search's result
    finals,           \* history: the final score of every finished run
    initial_score,    \* history: the score of the current run's random start
    out,              \* the Assignment returned
    twin,             \* a second invocation on the same inputs and rng stream
    swap,             \* the assignment and the indices of a make_swap to repeat
    hand,             \* input of the hand-cost specification
    hand_score,       \* its result
    loader            \* the locals of load_whacks while it reads a score

vars == <<music, num_players, num_hands_arg, pc, fault, run, step, assignment,
          next_assignment, best, finals, initial_score, out, twin, swap, hand,
          hand_score, loader>>

-----------------------------------------------------------------------------
(* Bounds of the model *)

\* restarts run by from_search (the code runs 100)
NumRuns == 2

\* iterations of one gradient_ascent (the code runs 1000)
NumSteps == 2

\* num_players ranges over 0..MaxPlayers
MaxPlayers == 2

\* longest note document of the hand-cost specification
MaxDocLen == 3

\* the num_hands given to search ranges over 0..MaxHands
MaxHands == 3

\* parts of a score read by load_whacks
MaxParts == 2

\* elements (notes, rests, tempo directions) of a score read by load_whacks
MaxElems == 4

-----------------------------------------------------------------------------
(* Program constants *)

\* floor of a swap's time_diff: 0.01 s, in milliseconds
MinSwapMs == 10

\* the tempo before any tempo change
DefaultBpm == 120

-----------------------------------------------------------------------------
(* Exact rationals *)

RECURSIVE Gcd(_, _)
Gcd(a, b) == IF b = 0 THEN a ELSE Gcd(b, a % b)

Abs(x) == IF x < 0 THEN -x ELSE x

Rat(n, d) ==
    LET g == Gcd(Abs(n), d) IN <<n \div g, d \div g>>

Zero == <<0, 1>>

RAdd(a, b) == Rat(a[1] * b[2] + b[1] * a[2], a[2] * b[2])

RSub(a, b) == Rat(a[1] * b[2] - b[1] * a[2], a[2] * b[2])

RLess(a, b) == a[1] * b[2] < b[1] * a[2]

RLeq(a, b) == a[1] * b[2] <= b[1] * a[2]

-----------------------------------------------------------------------------
(* Notes, whacks and the schedule *)

\* A document is the sequence of pitched <note> events of a score in
\* document order: [note |-> pitch, t |-> start time in ms].  The whack of
\* the k-th event (0-based) has note_idx k.

Whack(t, k) == [timestamp |-> t, note_idx |-> k]

\* derive(Ord) on Whack: timestamp first, then note_idx
WhackLess(a, b) ==
    \/ a.timestamp < b.timestamp
    \/ a.timestamp = b.timestamp /\ a.note_idx < b.note_idx

RECURSIVE InsertWhack(_, _)
InsertWhack(w, s) ==
    IF s = <<>> THEN <<w>>
    ELSE IF WhackLess(w, Head(s)) THEN <<w>> \o s
    ELSE <<Head(s)>> \o InsertWhack(w, Tail(s))

\* mutant: the whacks left in the order they were pushed
WhacksAsPushed(s) == s

RECURSIVE SortWhacks(_)
SortWhacks(s) ==
    IF s = <<>> THEN <<>> ELSE InsertWhack(Head(s), SortWhacks(Tail(s)))

RECURSIVE WhacksOf(_, _, _)
\* the whacks pushed for note n by the events doc[k+1..], in document order
WhacksOf(doc, n, k) ==
    IF k >= Len(doc) THEN <<>>
    ELSE (IF doc[k + 1].note = n THEN <<Whack(doc[k + 1].t, k)>> ELSE <<>>)
         \o WhacksOf(doc, n, k + 1)

\* load_whacks: one entry per note that occurs, its whacks sorted
load_whacks(doc) ==
    [n \in {doc[i].note : i \in DOMAIN doc} |-> SortWhacks(WhacksOf(doc, n, 0))]

-----------------------------------------------------------------------------
(* Hand cost model *)

\* mutant: a swap rewarded instead of charged
SwapCostAsGain(d) == Rat(-1000, IF d < MinSwapMs THEN MinSwapMs ELSE d)

\* mutant: a swap with a second or more to make it costs nothing
SwapCostFreeAfterASecond(d) ==
    IF d >= 1000 THEN Zero ELSE Rat(1000, IF d < MinSwapMs THEN MinSwapMs ELSE d)

\* cost of one swap with time_diff d (ms): 1.0 / max(d, 0.01 s)
SwapCost(d) == Rat(1000, IF d < MinSwapMs THEN MinSwapMs ELSE d)

RECURSIVE PositionMinFrom(_, _, _, _)
\* position_min_by_key over the first whack of each note: the first minimum
PositionMinFrom(whackers_in_hand, m, i, bestPos) ==
    IF i > Len(whackers_in_hand) THEN bestPos
    ELSE PositionMinFrom(whackers_in_hand, m, i + 1,
            IF WhackLess(m[whackers_in_hand[i]][1], m[whackers_in_hand[bestPos]][1])
            THEN i ELSE bestPos)

FirstHeldIdx(whackers_in_hand, m) == PositionMinFrom(whackers_in_hand, m, 2, 1)

RECURSIVE NextIterFrom(_, _, _, _, _)
\* the inner for loop: the first iterator whose peeked timestamp is strictly
\* smaller than every earlier one; 0 when every iterator is exhausted
NextIterFrom(whackers_in_hand, m, cur, i, bestPos) ==
    IF i > Len(whackers_in_hand) THEN bestPos
    ELSE LET hits == m[whackers_in_hand[i]]
             better ==
                /\ cur[i] <= Len(hits)
                /\ \/ bestPos = 0
                   \/ hits[cur[i]].timestamp <
                        m[whackers_in_hand[bestPos]][cur[bestPos]].timestamp
         IN NextIterFrom(whackers_in_hand, m, cur, i + 1,
                         IF better THEN i ELSE bestPos)

RECURSIVE MergeLoop(_, _, _, _, _, _)
MergeLoop(whackers_in_hand, m, cur, last_played_iter_idx, last_whack_time, score) ==
    LET next_iter_idx == NextIterFrom(whackers_in_hand, m, cur, 1, 0) IN
    IF next_iter_idx = 0 THEN score
    ELSE LET best_next_time ==
                m[whackers_in_hand[next_iter_idx]][cur[next_iter_idx]].timestamp
             time_diff == best_next_time - last_whack_time
             score2 == IF last_played_iter_idx # next_iter_idx
                       THEN RSub(score, SwapCost(time_diff))
                       ELSE score
         IN MergeLoop(whackers_in_hand, m,
                      [cur EXCEPT ![next_iter_idx] = @ + 1],
                      next_iter_idx, best_next_time, score2)

\* mutant: the early return also taken by a hand of two whackers
score_for_hand_two_free(whackers_in_hand, m) ==
    IF Len(whackers_in_hand) <= 2 THEN Zero
    ELSE MergeLoop(whackers_in_hand, m,
                   [i \in 1..Len(whackers_in_hand) |-> 1],
                   FirstHeldIdx(whackers_in_hand, m), 0, Zero)

score_for_hand(whackers_in_hand, m) ==
    IF Len(whackers_in_hand) <= 1 THEN Zero
    ELSE MergeLoop(whackers_in_hand, m,
                   [i \in 1..Len(whackers_in_hand) |-> 1],
                   FirstHeldIdx(whackers_in_hand, m), 0, Zero)

score_for_player(left_hand, right_hand, m) ==
    RAdd(score_for_hand(left_hand, m), score_for_hand(right_hand, m))

-----------------------------------------------------------------------------
(* FastAssignment: a flat list of whackers plus one index range per hand *)

\* a Range<usize>: start..end, 0-based and half open
Range(a, b) == [start |-> a, end |-> b]

\* whackers[range]
Slice(whackers, r) == SubSeq(whackers, r.start + 1, r.end)

FastAssignment(w, ps) == [whackers |-> w, players |-> ps]

NoAssignment == FastAssignment(<<>>, <<>>)

\* the enumerations of a finite set: the orders HashMap::keys() may produce
Orders(S) ==
    {f \in [1..Cardinality(S) -> S] : \A i, j \in DOMAIN f : f[i] = f[j] => i = j}

\* the outcomes of shuffle: one permutation of the positions per rng state
Perms(n) == Orders(1..n)

RECURSIVE InsertNote(_, _)
InsertNote(x, s) ==
    IF s = <<>> THEN <<x>>
    ELSE IF x < Head(s) THEN <<x>> \o s
    ELSE <<Head(s)>> \o InsertNote(x, Tail(s))

RECURSIVE SortNotes(_)
\* slice::sort on notes (ascending semitones)
SortNotes(s) ==
    IF s = <<>> THEN <<>> ELSE InsertNote(Head(s), SortNotes(Tail(s)))

\* mutant: the keys used in the order the map enumerates them
UnsortedKeys(keys) == keys

\* keys().copied().collect_vec() followed by sort()
SortedKeys(keys) == SortNotes(keys)

\* whackers.shuffle(rng)
Shuffle(s, perm) == [i \in 1..Len(s) |-> s[perm[i]]]

RECURSIVE HandsFromFirstTakesSpare(_, _, _, _, _)
\* mutant: every spare whacker given to the first hand
HandsFromFirstTakesSpare(i, num_hands, base, extra, whackers_allocated) ==
    IF i >= num_hands THEN <<>>
    ELSE LET num_whackers == base + (IF i = 0 THEN extra ELSE 0)
         IN <<Range(whackers_allocated, whackers_allocated + num_whackers)>>
            \o HandsFromFirstTakesSpare(i + 1, num_hands, base, extra,
                                        whackers_allocated + num_whackers)

RECURSIVE HandsFromLastTakeSpare(_, _, _, _, _)
\* mutant: the spare whackers given to the last `extra` hands
HandsFromLastTakeSpare(i, num_hands, base, extra, whackers_allocated) ==
    IF i >= num_hands THEN <<>>
    ELSE LET num_whackers == base + (IF i >= num_hands - extra THEN 1 ELSE 0)
         IN <<Range(whackers_allocated, whackers_allocated + num_whackers)>>
            \o HandsFromLastTakeSpare(i + 1, num_hands, base, extra,
                                      whackers_allocated + num_whackers)

RECURSIVE HandsFrom(_, _, _, _, _)
\* the for loop of random: hand i takes base (+1 for the first `extra` hands)
HandsFrom(i, num_hands, base, extra, whackers_allocated) ==
    IF i >= num_hands THEN <<>>
    ELSE LET num_whackers == base + (IF i < extra THEN 1 ELSE 0)
         IN <<Range(whackers_allocated, whackers_allocated + num_whackers)>>
            \o HandsFrom(i + 1, num_hands, base, extra,
                         whackers_allocated + num_whackers)

\* Itertools::tuples over an even number of hands
Tuples(hands) ==
    [p \in 1..(Len(hands) \div 2) |-> <<hands[2 * p - 1], hands[2 * p]>>]

\* FastAssignment::random, for num_players >= 1
random(m, np, keys, perm) ==
    LET num_hands == np * 2
        whackers == Shuffle(SortedKeys(keys), perm)
        hands == HandsFrom(0, num_hands, Len(whackers) \div num_hands,
                           Len(whackers) % num_hands, 0)
    IN FastAssignment(whackers, Tuples(hands))

\* mutant: the first position overwritten, the second left as it was
make_swap_overwrite(a, swap_idx_1, swap_idx_2) ==
    [a EXCEPT !.whackers =
        [@ EXCEPT ![swap_idx_1 + 1] = a.whackers[swap_idx_2 + 1]]]

\* mutant: the exchange also hands the last whacker of the first left hand
\* over to its right hand
make_swap_moving_boundary(a, swap_idx_1, swap_idx_2) ==
    LET l == a.players[1][1]
        r == a.players[1][2]
    IN [whackers |->
            [a.whackers EXCEPT ![swap_idx_1 + 1] = a.whackers[swap_idx_2 + 1],
                               ![swap_idx_2 + 1] = a.whackers[swap_idx_1 + 1]],
        players |->
            IF l.end > l.start
            THEN [a.players EXCEPT ![1] = <<Range(l.start, l.end - 1),
                                            Range(l.end - 1, r.end)>>]
            ELSE a.players]

\* FastAssignment::make_swap with the two drawn indices
make_swap(a, swap_idx_1, swap_idx_2) ==
    [a EXCEPT !.whackers =
        [@ EXCEPT ![swap_idx_1 + 1] = a.whackers[swap_idx_2 + 1],
                  ![swap_idx_2 + 1] = a.whackers[swap_idx_1 + 1]]]

RECURSIVE ScoreFrom(_, _, _)
ScoreFrom(a, m, p) ==
    IF p > Len(a.players) THEN Zero
    ELSE RAdd(score_for_player(Slice(a.whackers, a.players[p][1]),
                               Slice(a.whackers, a.players[p][2]), m),
              ScoreFrom(a, m, p + 1))

\* FastAssignment::score
score(a, m) == ScoreFrom(a, m, 1)

\* mutant: a proposal of equal score accepted too
BetterOrEqual(next, cur, m) == RLeq(score(cur, m), score(next, m))

\* mutant: the comparison turned around
Worse(next, cur, m) == RLess(score(next, m), score(cur, m))

\* the test of gradient_ascent: move only to a strictly better assignment
Better(next, cur, m) == RLess(score(cur, m), score(next, m))

-----------------------------------------------------------------------------
(* from_search: selection of the best run, then sorting and re-pairing *)

NoBest == [some |-> FALSE, key |-> Zero, assignment |-> NoAssignment, idx |-> 0]

\* mutant: the earlier element kept unless the later is strictly greater
MaxByKeyFirst(b, a, key, idx) ==
    IF b.some /\ RLeq(key, b.key) THEN b
    ELSE [some |-> TRUE, key |-> key, assignment |-> a, idx |-> idx]

\* one step of max_by_key: the later element wins unless strictly smaller.
\* idx records which run the retained assignment came from.
MaxByKey(b, a, key, idx) ==
    IF b.some /\ RLess(key, b.key) THEN b
    ELSE [some |-> TRUE, key |-> key, assignment |-> a, idx |-> idx]

\* flat_map(|(l, r)| [l, r])
FlatHands(players) ==
    [k \in 1..(2 * Len(players)) |-> players[(k + 1) \div 2][2 - (k % 2)]]

RECURSIVE SortRanges(_, _, _)
\* sort every hand's slice of the flat list in place
SortRanges(whackers, hands, k) ==
    IF k > Len(hands) THEN whackers
    ELSE LET r == hands[k]
             sorted == SortNotes(Slice(whackers, r))
         IN SortRanges([i \in 1..Len(whackers) |->
                            IF r.start < i /\ i <= r.end
                            THEN sorted[i - r.start] ELSE whackers[i]],
                       hands, k + 1)

\* the sort key of a hand: first().copied(), where None sorts before Some
HandKey(whackers, r) ==
    IF r.start = r.end THEN <<0, 0>> ELSE <<1, whackers[r.start + 1]>>

KeyLess(x, y) == x[1] < y[1] \/ (x[1] = y[1] /\ x[2] < y[2])

RECURSIVE InsertHand(_, _, _)
\* stable: a hand goes after the hands whose key is not greater
InsertHand(whackers, r, s) ==
    IF s = <<>> THEN <<r>>
    ELSE IF KeyLess(HandKey(whackers, r), HandKey(whackers, Head(s)))
         THEN <<r>> \o s
    ELSE <<Head(s)>> \o InsertHand(whackers, r, Tail(s))

\* mutant: the hands left in the order the search produced them
SortHandsAsGiven(whackers, hands, k) == SubSeq(hands, 1, k)

RECURSIVE SortHands(_, _, _)
\* hands.sort_by_key(..): the hands hands[1..k] in stable key order
SortHands(whackers, hands, k) ==
    IF k = 0 THEN <<>>
    ELSE InsertHand(whackers, hands[k], SortHands(whackers, hands, k - 1))

\* lines 66-78 of from_search
Presented(a) ==
    LET hands == FlatHands(a.players)
        whackers == SortRanges(a.whackers, hands, 1)
    IN FastAssignment(whackers,
                      Tuples(SortHands(whackers, hands, Len(hands))))

NoOutput == [some |-> FALSE, players |-> <<>>, score |-> Zero]

\* Assignment::new on the FastAssignment that from_search returned
Assignment_new(fast, m) ==
    [some |-> TRUE,
     players |-> [p \in 1..Len(fast.players) |->
                    <<Slice(fast.whackers, fast.players[p][1]),
                      Slice(fast.whackers, fast.players[p][2])>>],
     score |-> score(fast, m)]

-----------------------------------------------------------------------------
(* search.rs and assignment.rs: the search over HandAssignments, which     *)
(* names the whackers by WhackerIdx and caches the score in the assignment *)

\* the hit times of a note
Timestamps(ws) == [k \in DOMAIN ws |-> ws[k].timestamp]

\* Context: the whackers in note order; WhackerIdx i is entry i + 1
Context(m, keys) ==
    [whacks |-> [i \in 1..Len(keys) |->
                    [note |-> SortedKeys(keys)[i],
                     times |-> Timestamps(m[SortedKeys(keys)[i]])]]]

\* ctx.whacks[idx].1
TimesOf(ctx, idx) == ctx.whacks[idx + 1].times

RECURSIVE IdxPositionMinFrom(_, _, _, _)
\* position_min_by_key over the first time of each whacker: the first minimum
IdxPositionMinFrom(whackers_in_hand, ctx, i, bestPos) ==
    IF i > Len(whackers_in_hand) THEN bestPos
    ELSE IdxPositionMinFrom(whackers_in_hand, ctx, i + 1,
            IF TimesOf(ctx, whackers_in_hand[i])[1]
                    < TimesOf(ctx, whackers_in_hand[bestPos])[1]
            THEN i ELSE bestPos)

RECURSIVE IdxNextIterFrom(_, _, _, _, _)
\* the inner for loop: the first iterator with the strictly smallest peeked
\* time; 0 when every iterator is exhausted
IdxNextIterFrom(whackers_in_hand, ctx, cur, i, bestPos) ==
    IF i > Len(whackers_in_hand) THEN bestPos
    ELSE LET times == TimesOf(ctx, whackers_in_hand[i])
             better ==
                /\ cur[i] <= Len(times)
                /\ \/ bestPos = 0
                   \/ times[cur[i]] <
                        TimesOf(ctx, whackers_in_hand[bestPos])[cur[bestPos]]
         IN IdxNextIterFrom(whackers_in_hand, ctx, cur, i + 1,
                            IF better THEN i ELSE bestPos)

RECURSIVE IdxMergeLoop(_, _, _, _, _, _)
IdxMergeLoop(whackers_in_hand, ctx, cur, last_played_iter_idx, last_whack_time, total) ==
    LET next_iter_idx == IdxNextIterFrom(whackers_in_hand, ctx, cur, 1, 0) IN
    IF next_iter_idx = 0 THEN total
    ELSE LET best_next_time ==
                TimesOf(ctx, whackers_in_hand[next_iter_idx])[cur[next_iter_idx]]
             time_diff == best_next_time - last_whack_time
             score2 == IF last_played_iter_idx # next_iter_idx
                       THEN RSub(total, SwapCost(time_diff))
                       ELSE total
         IN IdxMergeLoop(whackers_in_hand, ctx,
                         [cur EXCEPT ![next_iter_idx] = @ + 1],
                         next_iter_idx, best_next_time, score2)

\* score_for_hand of assignment.rs
idx_score_for_hand(whackers_in_hand, ctx) ==
    IF Len(whackers_in_hand) <= 1 THEN Zero
    ELSE IdxMergeLoop(whackers_in_hand, ctx,
                      [i \in 1..Len(whackers_in_hand) |-> 1],
                      IdxPositionMinFrom(whackers_in_hand, ctx, 2, 1), 0, Zero)

Hand(r) == [range |-> r]

\* Hand::score
Hand_score(h, whackers, ctx) == idx_score_for_hand(Slice(whackers, h.range), ctx)

RECURSIVE SumHands(_, _, _, _)
\* hands.iter().map(|hand| hand.score(&whackers, ctx)).sum()
SumHands(hands, whackers, ctx, k) ==
    IF k > Len(hands) THEN Zero
    ELSE RAdd(Hand_score(hands[k], whackers, ctx),
              SumHands(hands, whackers, ctx, k + 1))

HandAssignment(w, hs, sc) == [whackers |-> w, hands |-> hs, score |-> sc]

NoHandAssignment == HandAssignment(<<>>, <<>>, Zero)

\* HandAssignment::random, for num_hands >= 1
HandAssignment_random(num_hands, ctx, perm) ==
    LET whackers == Shuffle([i \in 1..Len(ctx.whacks) |-> i - 1], perm)
        ranges == HandsFrom(0, num_hands, Len(whackers) \div num_hands,
                            Len(whackers) % num_hands, 0)
        hands == [k \in DOMAIN ranges |-> Hand(ranges[k])]
    IN HandAssignment(whackers, hands, SumHands(hands, whackers, ctx, 1))

\* mutant: the whackers exchanged, the cached score left as it was
HandAssignment_make_swap_stale(a, ctx, swap_idx_1, swap_idx_2) ==
    [a EXCEPT !.whackers =
        [@ EXCEPT ![swap_idx_1 + 1] = a.whackers[swap_idx_2 + 1],
                  ![swap_idx_2 + 1] = a.whackers[swap_idx_1 + 1]]]

\* mutant: the first position overwritten, the second left as it was
HandAssignment_make_swap_overwrite(a, ctx, swap_idx_1, swap_idx_2) ==
    LET whackers == [a.whackers EXCEPT
                        ![swap_idx_1 + 1] = a.whackers[swap_idx_2 + 1]]
    IN HandAssignment(whackers, a.hands, SumHands(a.hands, whackers, ctx, 1))

\* HandAssignment::make_swap with the two drawn indices
HandAssignment_make_swap(a, ctx, swap_idx_1, swap_idx_2) ==
    LET whackers == [a.whackers EXCEPT
                        ![swap_idx_1 + 1] = a.whackers[swap_idx_2 + 1],
                        ![swap_idx_2 + 1] = a.whackers[swap_idx_1 + 1]]
    IN HandAssignment(whackers, a.hands, SumHands(a.hands, whackers, ctx, 1))

\* HandAssignment::whackers: the notes of every hand
HandAssignment_whackers(a, ctx) ==
    [k \in DOMAIN a.hands |->
        [i \in 1..(a.hands[k].range.end - a.hands[k].range.start) |->
            ctx.whacks[a.whackers[a.hands[k].range.start + i] + 1].note]]

\* whackers_in_hand.first().copied(), where None sorts before Some
FirstCopied(whackers_in_hand) ==
    IF whackers_in_hand = <<>> THEN <<0, 0>> ELSE <<1, whackers_in_hand[1]>>

RECURSIVE InsertNotes(_, _)
\* stable: a hand goes after the hands whose key is not greater
InsertNotes(h, s) ==
    IF s = <<>> THEN <<h>>
    ELSE IF KeyLess(FirstCopied(h), FirstCopied(Head(s))) THEN <<h>> \o s
    ELSE <<Head(s)>> \o InsertNotes(h, Tail(s))

RECURSIVE SortByFirst(_, _)
\* whacker_assignment.sort_by_key(..): the hands hs[1..k] in stable key order
SortByFirst(hs, k) ==
    IF k = 0 THEN <<>> ELSE InsertNotes(hs[k], SortByFirst(hs, k - 1))

\* lines 41-51 of search; duration is not modelled
SearchResult(a, ctx) ==
    LET whacker_assignment ==
            [k \in DOMAIN a.hands |-> SortNotes(HandAssignment_whackers(a, ctx)[k])]
    IN [some |-> TRUE,
        hand_assignment |-> SortByFirst(whacker_assignment, Len(whacker_assignment)),
        best_score |-> a.score]

NoResult == [some |-> FALSE, hand_assignment |-> <<>>, best_score |-> Zero]

-----------------------------------------------------------------------------
(* music_xml.rs: load_whacks reading the elements of a score one by one.    *)
(* The measures of a part only group its elements, so a part is read as the *)
(* sequence of the children of its measures.                                *)

\* a <note> without <pitch>
Rest == 0

\* the pitches of the scores read
Pitches == {1, 2}

\* the tempo attributes of the scores read
Tempos == {60, 240}

\* the <divisions> of the parts read
Divisions == {1, 2}

\* the <duration> of every note read, in divisions
NumDivsInNote == 1

Timestamp_ZERO == 0

LoadedWhack(t, k, c) == [timestamp |-> t, note_idx |-> k, chord_note_idx |-> c]

\* the slice is sorted by timestamp, as binary_search_by_key requires
SortedByKey(bpm_changes) ==
    \A i, j \in DOMAIN bpm_changes :
        i < j => bpm_changes[i].start <= bpm_changes[j].start

\* binary_search_by_key followed by map_or_else: the index of a match (any
\* of several), or the insertion point less one, saturating at 0; on a slice
\* that is not sorted the result is unspecified, any index the search can
\* return
CurrentBpmIdx(bpm_changes, next_chord_start) ==
    LET hits == {i \in 0..(Len(bpm_changes) - 1) :
                    bpm_changes[i + 1].start = next_chord_start}
        gap_idx == Cardinality({i \in DOMAIN bpm_changes :
                                    bpm_changes[i].start < next_chord_start})
    IN IF ~SortedByKey(bpm_changes) THEN 0..(Len(bpm_changes) - 1)
       ELSE IF hits # {} THEN hits
       ELSE {IF gap_idx = 0 THEN 0 ELSE gap_idx - 1}

\* bpm_changes.get(current_bpm_idx).map_or(120.0, ..)
CurrentBpm(bpm_changes, current_bpm_idx) ==
    IF current_bpm_idx < Len(bpm_changes)
    THEN bpm_changes[current_bpm_idx + 1].bpm
    ELSE DefaultBpm

\* note_duration, in ms, with the index the search returned
note_duration(num_divs_in_note, divs_per_beat, bpm_changes, current_bpm_idx) ==
    LET current_bpm == CurrentBpm(bpm_changes, current_bpm_idx)
        div_duration == 60000 \div (current_bpm * divs_per_beat)
    IN div_duration * num_divs_in_note

\* the locals of load_whacks before the first part, lines 98-102; note_tags,
\* tags and lookup are history: the pitch (or Rest) of every <note> element
\* read so far, the number of <note> elements read before the element of
\* each whack (by note_idx), and the last call of note_duration
NewLoader ==
    [running |-> TRUE,
     whacks |-> <<>>,
     bpm_changes |-> <<>>,
     whacks_loaded_so_far |-> 0,
     part_idx |-> 0,
     divs_per_beat |-> 0,
     current_chord_start |-> Timestamp_ZERO,
     current_chord_note_idx |-> 0,
     next_chord_start |-> Timestamp_ZERO,
     elems_read |-> 0,
     note_tags |-> <<>>,
     tags |-> <<>>,
     lookup |-> [some |-> FALSE]]

\* whacks.entry(note).or_default().push(whack)
PushWhack(whacks, note, whack) ==
    IF note \in DOMAIN whacks
    THEN [whacks EXCEPT ![note] = Append(@, whack)]
    ELSE [n \in (DOMAIN whacks) \cup {note} |->
            IF n = note THEN <<whack>> ELSE whacks[n]]

\* mutant: a rest counted in whacks_loaded_so_far like a note
add_whack_counting_rests(l, pitch, chord, current_bpm_idx) ==
    LET d == note_duration(NumDivsInNote, l.divs_per_beat, l.bpm_changes,
                           current_bpm_idx)
        l1 == IF chord THEN l
              ELSE [l EXCEPT
                        !.current_chord_start = l.next_chord_start,
                        !.current_chord_note_idx = l.whacks_loaded_so_far,
                        !.next_chord_start = l.next_chord_start + d,
                        !.lookup = [some |-> TRUE,
                                    start |-> l.next_chord_start,
                                    bpm_changes |-> l.bpm_changes,
                                    part_idx |-> l.part_idx,
                                    bpm |-> CurrentBpm(l.bpm_changes,
                                                       current_bpm_idx)]]
        l2 == IF pitch = Rest THEN [l1 EXCEPT !.whacks_loaded_so_far = @ + 1]
              ELSE [l1 EXCEPT
                        !.whacks = PushWhack(@, pitch,
                                LoadedWhack(l1.current_chord_start,
                                            l1.whacks_loaded_so_far,
                                            l1.current_chord_note_idx)),
                        !.whacks_loaded_so_far = @ + 1,
                        !.tags = Append(@, Len(l.note_tags))]
    IN [l2 EXCEPT !.note_tags = Append(@, pitch), !.elems_read = @ + 1]

\* add_whack on a <note> with the given pitch (or Rest) and <chord> flag
add_whack(l, pitch, chord, current_bpm_idx) ==
    LET d == note_duration(NumDivsInNote, l.divs_per_beat, l.bpm_changes,
                           current_bpm_idx)
        l1 == IF chord THEN l
              ELSE [l EXCEPT
                        !.current_chord_start = l.next_chord_start,
                        !.current_chord_note_idx = l.whacks_loaded_so_far,
                        !.next_chord_start = l.next_chord_start + d,
                        !.lookup = [some |-> TRUE,
                                    start |-> l.next_chord_start,
                                    bpm_changes |-> l.bpm_changes,
                                    part_idx |-> l.part_idx,
                                    bpm |-> CurrentBpm(l.bpm_changes,
                                                       current_bpm_idx)]]
        l2 == IF pitch = Rest THEN l1
              ELSE [l1 EXCEPT
                        !.whacks = PushWhack(@, pitch,
                                LoadedWhack(l1.current_chord_start,
                                            l1.whacks_loaded_so_far,
                                            l1.current_chord_note_idx)),
                        !.whacks_loaded_so_far = @ + 1,
                        !.tags = Append(@, Len(l.note_tags))]
    IN [l2 EXCEPT !.note_tags = Append(@, pitch), !.elems_read = @ + 1]

-----------------------------------------------------------------------------
(* Inputs *)

Ev(n, t) == [note |-> n, t |-> t]

\* the scores searched: no instrument, one instrument, a chord written from
\* the top note down, a melody that returns to its first note, and two
\* voices that meet on a beat
Docs ==
    { <<>>,
      <<Ev(1, 0)>>,
      <<Ev(3, 0), Ev(2, 0), Ev(1, 0)>>,
      <<Ev(1, 0), Ev(2, 1000), Ev(3, 2000), Ev(1, 3000)>>,
      <<Ev(1, 0), Ev(2, 1000), Ev(1, 2000), Ev(2, 2000), Ev(3, 5000)>> }

\* four instruments played once each, a second apart
ScenarioD == <<Ev(1, 0), Ev(2, 1000), Ev(3, 2000), Ev(4, 3000)>>

\* the notes and the times (ms) of the documents the hand cost is computed on
HandNotes == {1, 2, 3}

HandTimes == {0, 1, 20, 1000}

HandDocs ==
    UNION {[1..k -> {Ev(n, t) : n \in HandNotes, t \in HandTimes}] : k \in 0..MaxDocLen}

\* the hands over a set of notes: every sequence of distinct notes
HandsOver(S) ==
    UNION {Orders(T) : T \in SUBSET S}

\* number of instruments of the schedule
NumWhackers == Cardinality(DOMAIN music)

NoTwin == [assignment |-> NoAssignment, next_assignment |-> NoAssignment,
           best |-> NoBest, out |-> NoOutput, keys_differed |-> FALSE]

\* load_whacks not running
NoLoader == [running |-> FALSE]

NoSwap == [some |-> FALSE, before |-> NoAssignment, once |-> NoAssignment,
           swap_idx_1 |-> 0, swap_idx_2 |-> 0]

-----------------------------------------------------------------------------
(* The search: Assignment::new -> from_search -> gradient_ascent *)

Start ==
    /\ pc = "random"
    /\ fault = "none"
    /\ run = 0
    /\ step = 0
    /\ assignment = NoAssignment
    /\ next_assignment = NoAssignment
    /\ best = NoBest
    /\ finals = <<>>
    /\ initial_score = Zero
    /\ out = NoOutput
    /\ twin = NoTwin
    /\ swap = NoSwap
    /\ hand = <<>>
    /\ hand_score = Zero
    /\ loader = NoLoader

Init ==
    /\ music \in {load_whacks(d) : d \in Docs}
    /\ num_players \in 0..MaxPlayers
    /\ num_hands_arg = num_players * 2
    /\ Start

Panic(why) ==
    /\ pc' = "panic"
    /\ fault' = why
    /\ UNCHANGED <<run, step, assignment, next_assignment, best, finals,
                   initial_score, out>>

\* gradient_ascent, lines 88-89: the random start of one run and its clone.
\* `len / num_hands` panics when num_hands is 0.
Random(keys, perm) ==
    /\ pc = "random"
    /\ IF num_players * 2 = 0
       THEN Panic("div_by_zero")
       ELSE /\ assignment' = random(music, num_players, keys, perm)
            /\ next_assignment' = assignment'
            /\ initial_score' = score(assignment', music)
            /\ step' = 0
            /\ pc' = "loop"
            /\ UNCHANGED <<fault, run, best, finals, out>>

\* one iteration of the loop of gradient_ascent, lines 92-97.
\* gen_range(0..0) panics on an empty flat list.
Iterate(swap_idx_1, swap_idx_2) ==
    /\ pc = "loop"
    /\ step < NumSteps
    /\ IF Len(assignment.whackers) = 0
       THEN Panic("empty_range")
       ELSE /\ swap_idx_1 < Len(assignment.whackers)
            /\ swap_idx_2 < Len(assignment.whackers)
            /\ LET proposal == make_swap(assignment, swap_idx_1, swap_idx_2) IN
               IF Better(proposal, assignment, music)
               THEN /\ assignment' = proposal
                    /\ next_assignment' = assignment
               ELSE /\ next_assignment' = proposal
                    /\ UNCHANGED assignment
            /\ step' = step + 1
            /\ UNCHANGED <<pc, fault, run, best, finals, initial_score, out>>

\* gradient_ascent returns its assignment, lines 99, and max_by_key folds it
\* in, lines 62-65; the locals of gradient_ascent are gone
Return ==
    /\ pc = "loop"
    /\ step = NumSteps
    /\ best' = MaxByKey(best, assignment, score(assignment, music), run)
    /\ finals' = Append(finals, score(assignment, music))
    /\ run' = run + 1
    /\ pc' = IF run + 1 = NumRuns THEN "present" ELSE "random"
    /\ assignment' = NoAssignment
    /\ next_assignment' = NoAssignment
    /\ initial_score' = Zero
    /\ step' = 0
    /\ UNCHANGED <<fault, out>>

\* from_search sorts the hands and re-pairs them, lines 66-78
Present ==
    /\ pc = "present"
    /\ best' = [best EXCEPT !.assignment = Presented(@)]
    /\ pc' = "new"
    /\ UNCHANGED <<fault, run, step, assignment, next_assignment, finals,
                   initial_score, out>>

\* Assignment::new builds its result, lines 24-36
New ==
    /\ pc = "new"
    /\ out' = Assignment_new(best.assignment, music)
    /\ pc' = "done"
    /\ UNCHANGED <<fault, run, step, assignment, next_assignment, best, finals,
                   initial_score>>

Frame ==
    UNCHANGED <<music, num_players, num_hands_arg, twin, swap, hand,
                hand_score, loader>>

KeyOrders == Orders(DOMAIN music)

SwapIdx == 0..(IF NumWhackers = 0 THEN 0 ELSE NumWhackers - 1)

AtRandom == pc = "random"

\* mutant: the loop given up as soon as a proposal has been rejected
AtLoopUntilRejected ==
    pc = "loop" /\ step < NumSteps /\ (step = 0 \/ next_assignment = assignment)

AtLoop == pc = "loop" /\ step < NumSteps

Next ==
    \/ AtRandom /\ \E keys \in KeyOrders, perm \in Perms(NumWhackers) :
            Random(keys, perm) /\ Frame
    \/ AtLoop /\ \E i, j \in SwapIdx : Iterate(i, j) /\ Frame
    \/ Return /\ Frame
    \/ Present /\ Frame
    \/ New /\ Frame

Spec == Init /\ [][Next]_vars

PcValues == {"random", "loop", "present", "new", "done", "panic"}

\* the guards of the actions of Next: some action can be taken
Running ==
    \/ AtRandom
    \/ AtLoop
    \/ pc = "loop" /\ step = NumSteps
    \/ pc \in {"present", "new"}

\* a step of the running computation: every step of Next moves pc or counts
\* an iteration
Advance ==
    /\ Running
    /\ pc' \in PcValues
    /\ step' \in 0..NumSteps
    /\ <<pc', step'>> # <<pc, step>>

\* Assignment::new is one sequential computation: it keeps running until it
\* returns or panics
SpecLive == Spec /\ WF_<<pc, step>>(Advance)

-----------------------------------------------------------------------------
(* Scenario D: the same search on four instruments and one player *)

InitD ==
    /\ music = load_whacks(ScenarioD)
    /\ num_players = 1
    /\ num_hands_arg = num_players * 2
    /\ Start

SpecD == InitD /\ [][Next]_vars

-----------------------------------------------------------------------------
(* Two invocations with the same schedule, player count and seed.  The rng   *)
(* is a deterministic function of the seed, so both invocations draw the    *)
(* same permutation in every shuffle and the same indices in every          *)
(* make_swap; the order in which HashMap::keys() enumerates the schedule is *)
(* free in each.  The loop counters read only the schedule's size and the   *)
(* player count, which the invocations share.                               *)

TwinRandom(keys_1, keys_2, perm) ==
    twin' = IF num_players * 2 = 0 THEN twin
            ELSE LET a == random(music, num_players, keys_2, perm) IN
                 [twin EXCEPT !.assignment = a, !.next_assignment = a,
                              !.keys_differed = @ \/ keys_1 # keys_2]

TwinIterate(swap_idx_1, swap_idx_2) ==
    twin' = IF Len(twin.assignment.whackers) = 0 THEN twin
            ELSE LET proposal ==
                        make_swap(twin.assignment, swap_idx_1, swap_idx_2) IN
                 IF Better(proposal, twin.assignment, music)
                 THEN [twin EXCEPT !.assignment = proposal,
                                   !.next_assignment = twin.assignment]
                 ELSE [twin EXCEPT !.next_assignment = proposal]

TwinReturn ==
    twin' = [twin EXCEPT
                !.best = MaxByKey(@, twin.assignment,
                                  score(twin.assignment, music), run),
                !.assignment = NoAssignment,
                !.next_assignment = NoAssignment]

TwinPresent ==
    twin' = [twin EXCEPT !.best.assignment = Presented(@)]

TwinNew ==
    twin' = [twin EXCEPT !.out = Assignment_new(twin.best.assignment, music)]

FrameDet ==
    UNCHANGED <<music, num_players, num_hands_arg, swap, hand, hand_score,
                loader>>

NextDet ==
    \/ AtRandom /\ \E keys_1, keys_2 \in KeyOrders, perm \in Perms(NumWhackers) :
            Random(keys_1, perm) /\ TwinRandom(keys_1, keys_2, perm) /\ FrameDet
    \/ AtLoop /\ \E i, j \in SwapIdx :
            Iterate(i, j) /\ TwinIterate(i, j) /\ FrameDet
    \/ Return /\ TwinReturn /\ FrameDet
    \/ Present /\ TwinPresent /\ FrameDet
    \/ New /\ TwinNew /\ FrameDet

SpecDet == Init /\ [][NextDet]_vars

-----------------------------------------------------------------------------
(* The search of search.rs: search -> gradient_ascent over HandAssignments. *)
(* assignment, next_assignment and best hold HandAssignments, out holds the *)
(* SearchResult.                                                            *)

\* the Context of the run; the order in which the map enumerates the notes
\* is sorted away by sorted_by_key
Ctx == Context(music, CHOOSE keys \in KeyOrders : TRUE)

InitSearch ==
    /\ music \in {load_whacks(d) : d \in Docs}
    /\ num_hands_arg \in 0..MaxHands
    /\ num_players = 0
    /\ pc = "search.random"
    /\ fault = "none"
    /\ run = 0
    /\ step = 0
    /\ assignment = NoHandAssignment
    /\ next_assignment = NoHandAssignment
    /\ best = NoBest
    /\ finals = <<>>
    /\ initial_score = Zero
    /\ out = NoResult
    /\ twin = NoTwin
    /\ swap = NoSwap
    /\ hand = <<>>
    /\ hand_score = Zero
    /\ loader = NoLoader

\* gradient_ascent, search.rs lines 61-62.  `len / num_hands` panics when
\* num_hands is 0.
SearchRandom(perm) ==
    /\ pc = "search.random"
    /\ IF num_hands_arg = 0
       THEN Panic("div_by_zero")
       ELSE /\ assignment' = HandAssignment_random(num_hands_arg, Ctx, perm)
            /\ next_assignment' = assignment'
            /\ initial_score' = assignment'.score
            /\ step' = 0
            /\ pc' = "search.loop"
            /\ UNCHANGED <<fault, run, best, finals, out>>

\* one iteration of the loop of gradient_ascent, search.rs lines 63-71.
\* gen_range(0..0) panics on an empty flat list.
SearchIterate(swap_idx_1, swap_idx_2) ==
    /\ pc = "search.loop"
    /\ step < NumSteps
    /\ IF Len(assignment.whackers) = 0
       THEN Panic("empty_range")
       ELSE /\ swap_idx_1 < Len(assignment.whackers)
            /\ swap_idx_2 < Len(assignment.whackers)
            /\ LET proposal == HandAssignment_make_swap(assignment, Ctx,
                                                        swap_idx_1, swap_idx_2) IN
               IF RLess(assignment.score, proposal.score)
               THEN /\ assignment' = proposal
                    /\ next_assignment' = assignment
               ELSE /\ next_assignment' = proposal
                    /\ UNCHANGED assignment
            /\ step' = step + 1
            /\ UNCHANGED <<pc, fault, run, best, finals, initial_score, out>>

\* gradient_ascent returns its assignment, line 72, and max_by_key folds it
\* in by its cached score, lines 35-38
SearchReturn ==
    /\ pc = "search.loop"
    /\ step = NumSteps
    /\ best' = MaxByKey(best, assignment, assignment.score, run)
    /\ finals' = Append(finals, assignment.score)
    /\ run' = run + 1
    /\ pc' = IF run + 1 = NumRuns THEN "search.result" ELSE "search.random"
    /\ assignment' = NoHandAssignment
    /\ next_assignment' = NoHandAssignment
    /\ initial_score' = Zero
    /\ step' = 0
    /\ UNCHANGED <<fault, out>>

\* search builds its SearchResult, lines 40-51
SearchFinish ==
    /\ pc = "search.result"
    /\ out' = SearchResult(best.assignment, Ctx)
    /\ pc' = "search.done"
    /\ UNCHANGED <<fault, run, step, assignment, next_assignment, best, finals,
                   initial_score>>

AtSearchRandom == pc = "search.random"

AtSearchLoop == pc = "search.loop" /\ step < NumSteps

NextSearch ==
    \/ AtSearchRandom /\ \E perm \in Perms(NumWhackers) : SearchRandom(perm) /\ Frame
    \/ AtSearchLoop /\ \E i, j \in SwapIdx : SearchIterate(i, j) /\ Frame
    \/ SearchReturn /\ Frame
    \/ SearchFinish /\ Frame

SpecSearch == InitSearch /\ [][NextSearch]_vars

-----------------------------------------------------------------------------
(* make_swap applied twice with the same two indices, to the clone of a     *)
(* random assignment of either search                                       *)

InitSwap == Init \/ InitSearch

FrameSwap ==
    UNCHANGED <<music, num_players, num_hands_arg, fault, run, step,
                assignment, best, finals, initial_score, out, twin, hand,
                hand_score, loader>>

\* FastAssignment::make_swap on next_assignment
SwapOnce(swap_idx_1, swap_idx_2) ==
    /\ pc = "loop"
    /\ swap_idx_1 < Len(next_assignment.whackers)
    /\ swap_idx_2 < Len(next_assignment.whackers)
    /\ swap' = [some |-> TRUE, before |-> next_assignment,
                once |-> NoAssignment,
                swap_idx_1 |-> swap_idx_1, swap_idx_2 |-> swap_idx_2]
    /\ next_assignment' = make_swap(next_assignment, swap_idx_1, swap_idx_2)
    /\ pc' = "swapped"
    /\ FrameSwap

\* the same call again
SwapAgain ==
    /\ pc = "swapped"
    /\ swap' = [swap EXCEPT !.once = next_assignment]
    /\ next_assignment' = make_swap(next_assignment, swap.swap_idx_1,
                                    swap.swap_idx_2)
    /\ pc' = "swapped_twice"
    /\ FrameSwap

\* HandAssignment::make_swap on next_assignment
SearchSwapOnce(swap_idx_1, swap_idx_2) ==
    /\ pc = "search.loop"
    /\ swap_idx_1 < Len(next_assignment.whackers)
    /\ swap_idx_2 < Len(next_assignment.whackers)
    /\ swap' = [some |-> TRUE, before |-> next_assignment,
                once |-> NoAssignment,
                swap_idx_1 |-> swap_idx_1, swap_idx_2 |-> swap_idx_2]
    /\ next_assignment' = HandAssignment_make_swap(next_assignment, Ctx,
                                                   swap_idx_1, swap_idx_2)
    /\ pc' = "search.swapped"
    /\ FrameSwap

\* the same call again
SearchSwapAgain ==
    /\ pc = "search.swapped"
    /\ swap' = [swap EXCEPT !.once = next_assignment]
    /\ next_assignment' = HandAssignment_make_swap(next_assignment, Ctx,
                                                   swap.swap_idx_1,
                                                   swap.swap_idx_2)
    /\ pc' = "search.swapped_twice"
    /\ FrameSwap

NextSwap ==
    \/ AtRandom /\ \E keys \in KeyOrders, perm \in Perms(NumWhackers) :
            Random(keys, perm) /\ Frame
    \/ AtSearchRandom /\ \E perm \in Perms(NumWhackers) : SearchRandom(perm) /\ Frame
    \/ \E i, j \in SwapIdx : SwapOnce(i, j)
    \/ SwapAgain
    \/ \E i, j \in SwapIdx : SearchSwapOnce(i, j)
    \/ SearchSwapAgain

SpecSwap == InitSwap /\ [][NextSwap]_vars

-----------------------------------------------------------------------------
(* load_whacks: the walk over the parts and their elements, then the sort *)

InitLoad ==
    /\ music = <<>>
    /\ num_players = 0
    /\ num_hands_arg = 0
    /\ pc = "load"
    /\ fault = "none"
    /\ run = 0
    /\ step = 0
    /\ assignment = NoAssignment
    /\ next_assignment = NoAssignment
    /\ best = NoBest
    /\ finals = <<>>
    /\ initial_score = Zero
    /\ out = NoOutput
    /\ twin = NoTwin
    /\ swap = NoSwap
    /\ hand = <<>>
    /\ hand_score = Zero
    /\ loader = NewLoader

FrameLoad ==
    UNCHANGED <<num_players, num_hands_arg, fault, run, step, assignment,
                next_assignment, best, finals, initial_score, out, twin, swap,
                hand, hand_score>>

\* the next <part>, lines 103-117: its divisions are read and its clock and
\* chord start again
BeginPart(divs_per_beat) ==
    /\ pc = "load"
    /\ loader.part_idx < MaxParts
    /\ loader' = [loader EXCEPT
                    !.part_idx = @ + 1,
                    !.divs_per_beat = divs_per_beat,
                    !.current_chord_start = Timestamp_ZERO,
                    !.current_chord_note_idx = loader.whacks_loaded_so_far,
                    !.next_chord_start = Timestamp_ZERO]
    /\ UNCHANGED <<pc, music>>
    /\ FrameLoad

\* a <direction> with a <sound tempo=..>, lines 125-134
ReadDirection(new_bpm) ==
    /\ pc = "load"
    /\ loader.part_idx >= 1
    /\ loader.elems_read < MaxElems
    /\ loader' = [loader EXCEPT
                    !.bpm_changes =
                        Append(@, [start |-> loader.next_chord_start,
                                   bpm |-> new_bpm]),
                    !.elems_read = @ + 1]
    /\ UNCHANGED <<pc, music>>
    /\ FrameLoad

\* a <note>, lines 136-150
ReadNote(pitch, chord) ==
    /\ pc = "load"
    /\ loader.part_idx >= 1
    /\ loader.elems_read < MaxElems
    /\ \E current_bpm_idx \in CurrentBpmIdx(loader.bpm_changes, loader.next_chord_start) :
            loader' = add_whack(loader, pitch, chord, current_bpm_idx)
    /\ UNCHANGED <<pc, music>>
    /\ FrameLoad

\* after the last part, lines 157-161: every note's whacks sorted, the map
\* returned
FinishLoad ==
    /\ pc = "load"
    /\ music' = [n \in DOMAIN loader.whacks |-> SortWhacks(loader.whacks[n])]
    /\ pc' = "loaded"
    /\ UNCHANGED loader
    /\ FrameLoad

NextLoad ==
    \/ \E divs_per_beat \in Divisions : BeginPart(divs_per_beat)
    \/ \E new_bpm \in Tempos : ReadDirection(new_bpm)
    \/ \E pitch \in Pitches \cup {Rest}, chord \in BOOLEAN : ReadNote(pitch, chord)
    \/ FinishLoad

SpecLoad == InitLoad /\ [][NextLoad]_vars

-----------------------------------------------------------------------------
(* The hand cost on its own: score_for_hand applied to one hand *)

InitHand ==
    /\ music \in {load_whacks(d) : d \in HandDocs}
    /\ hand \in HandsOver(DOMAIN music)
    /\ num_players = 1
    /\ num_hands_arg = num_players * 2
    /\ swap = NoSwap
    /\ pc = "hand"
    /\ fault = "none"
    /\ run = 0
    /\ step = 0
    /\ assignment = NoAssignment
    /\ next_assignment = NoAssignment
    /\ best = NoBest
    /\ finals = <<>>
    /\ initial_score = Zero
    /\ out = NoOutput
    /\ twin = NoTwin
    /\ hand_score = Zero
    /\ loader = NoLoader

ScoreHand ==
    /\ pc = "hand"
    /\ hand_score' = score_for_hand(hand, music)
    /\ pc' = "scored"
    /\ UNCHANGED <<music, num_players, num_hands_arg, fault, run, step, assignment,
                   next_assignment, best, finals, initial_score, out, twin,
                   swap, hand, loader>>

NextHand == ScoreHand

SpecHand == InitHand /\ [][NextHand]_vars

-----------------------------------------------------------------------------
(* Properties *)

NumHands == 2 * num_players

\* the hands of a FastAssignment, as ranges, in player order
HandsOf(a) == FlatHands(a.players)

\* the FastAssignments alive in the current state
LiveAssignments ==
    (IF pc = "loop" THEN {assignment, next_assignment} ELSE {})
        \cup (IF best.some THEN {best.assignment} ELSE {})

\* the hand ranges cover every position of the flat list exactly once, and
\* every instrument of the schedule is held by exactly one hand, once
Partitions(a) ==
    LET hands == HandsOf(a) IN
    /\ Len(hands) = NumHands
    /\ Len(a.whackers) = NumWhackers
    /\ \A k \in DOMAIN hands :
            0 <= hands[k].start /\ hands[k].start <= hands[k].end
                /\ hands[k].end <= Len(a.whackers)
    /\ \A i \in 1..Len(a.whackers) :
            Cardinality({k \in DOMAIN hands :
                            hands[k].start < i /\ i <= hands[k].end}) = 1
    /\ \A n \in DOMAIN music :
            Cardinality({<<k, i>> \in (DOMAIN hands) \X (1..Len(a.whackers)) :
                            /\ hands[k].start < i /\ i <= hands[k].end
                            /\ a.whackers[i] = n}) = 1

\* the same of the players that Assignment::new returns
OutputPartitions ==
    /\ Len(out.players) = num_players
    /\ \A n \in DOMAIN music :
            Cardinality({<<p, h, i>> \in (DOMAIN out.players) \X {1, 2} \X (1..NumWhackers) :
                            /\ i <= Len(out.players[p][h])
                            /\ out.players[p][h][i] = n}) = 1
    /\ \A p \in DOMAIN out.players : \A h \in {1, 2} :
            \A i \in DOMAIN out.players[p][h] : out.players[p][h][i] \in DOMAIN music

\* C1: for a non-empty schedule and at least one player, after random, after
\* every make_swap and accept/reject step, in the assignment retained and in
\* the output of Assignment::new, the hands' ranges tile the flat list and
\* every instrument of the schedule is in exactly one hand.
C1_PartitionInvariant ==
    (NumWhackers >= 1 /\ num_players >= 1) =>
        /\ \A a \in LiveAssignments : Partitions(a)
        /\ out.some => OutputPartitions

C1_Witness ==
    /\ pc = "done"
    /\ out.some
    /\ NumWhackers = 3
    /\ num_players = 1
    /\ OutputPartitions
    /\ Partitions(best.assignment)

\* the hit events of a hand: the k-th hit of the instrument at position pos
HandEvents(h, m) ==
    UNION {{[pos |-> p, k |-> k, t |-> m[h[p]][k].timestamp] :
                k \in DOMAIN m[h[p]]} : p \in DOMAIN h}

\* ascending by timestamp; hits at one timestamp by position, then by hit
EventBefore(e, f) ==
    \/ e.t < f.t
    \/ e.t = f.t /\ e.pos < f.pos
    \/ e.t = f.t /\ e.pos = f.pos /\ e.k <= f.k

RECURSIVE MergedEvents(_)
MergedEvents(E) ==
    IF E = {} THEN <<>>
    ELSE LET e == CHOOSE e \in E : \A f \in E : EventBefore(e, f)
         IN <<e>> \o MergedEvents(E \ {e})

RECURSIVE SwitchCosts(_, _)
\* the sum of 1 / max(gap, 0.01 s) over the events from the i-th on whose
\* instrument differs from that of the event before
SwitchCosts(ev, i) ==
    IF i > Len(ev) THEN Zero
    ELSE LET gap == ev[i].t - ev[i - 1].t
             cost == IF ev[i].pos # ev[i - 1].pos
                     THEN Rat(1000, IF gap > MinSwapMs THEN gap ELSE MinSwapMs)
                     ELSE Zero
         IN RAdd(cost, SwitchCosts(ev, i + 1))

\* the reference definition of the hand cost
ReferenceCost(h, m) ==
    IF Len(h) <= 1 THEN Zero
    ELSE RSub(Zero, SwitchCosts(MergedEvents(HandEvents(h, m)), 2))

\* C2: the cost score_for_hand returns is 0 for a hand of 0 or 1 instruments
\* and otherwise minus the sum of 1 / max(gap, 0.01) over the merged events
\* whose instrument differs from the previous event's.
C2_HandCostIsReference ==
    pc = "scored" => hand_score = ReferenceCost(hand, music)

\* C3: each iteration of gradient_ascent leaves the current assignment with a
\* score that is not lower than before, and so the current score is never
\* below the score of the run's random start.
C3_MonotonicImprovement ==
    [][(pc = "loop" /\ pc' = "loop") =>
            /\ RLeq(score(assignment, music), score(assignment', music))
            /\ RLeq(initial_score', score(assignment', music))]_vars

C3_Witness ==
    /\ pc = "loop"
    /\ step >= 1
    /\ RLess(initial_score, score(assignment, music))

\* C4: with no instrument and at least one player the search does not crash,
\* and it returns all-empty hands and score 0.
C4_EmptyScheduleCompletes ==
    (NumWhackers = 0 /\ num_players >= 1) =>
        /\ pc # "panic"
        /\ pc = "done" =>
              /\ out.score = Zero
              /\ \A p \in DOMAIN out.players :
                    out.players[p] = <<(<<>>), (<<>>)>>

\* the indices (0-based) of the finished runs whose final score is the greatest
TopRuns ==
    {i \in 0..(Len(finals) - 1) :
        \A j \in DOMAIN finals : RLeq(finals[j], finals[i + 1])}

Min(S) == CHOOSE x \in S : \A y \in S : x <= y

Max(S) == CHOOSE x \in S : \A y \in S : y <= x

\* C5 as stated: the retained run has the greatest final score, and among the
\* runs that tie for it the first is retained.
C5_FirstOfTiesRetained ==
    best.some =>
        /\ \A j \in DOMAIN finals : RLeq(finals[j], best.key)
        /\ best.idx = Min(TopRuns)

\* C5 amended: the retained run has the greatest final score, and among the
\* runs that tie for it the last is retained.
C5_LastOfTiesRetained ==
    best.some =>
        /\ \A j \in DOMAIN finals : RLeq(finals[j], best.key)
        /\ best.idx \in TopRuns
        /\ best.idx = Max(TopRuns)
        /\ pc \in {"random", "loop", "present"} =>
                best.key = score(best.assignment, music)

C5_Witness ==
    /\ pc = "present"
    /\ Cardinality(TopRuns) >= 2
    /\ RLess(best.key, Zero)
    /\ best.idx = Max(TopRuns)
    /\ best.idx # Min(TopRuns)

\* the schedule of Scenario D: four instruments, each played exactly once,
\* the hits a second or more apart; one player
IsScenarioD ==
    /\ NumWhackers = 4
    /\ num_players = 1
    /\ \A n \in DOMAIN music : Len(music[n]) = 1
    /\ \A n1, n2 \in DOMAIN music :
            n1 # n2 => Abs(music[n1][1].timestamp - music[n2][1].timestamp) >= 1000

\* C6 as stated: in Scenario D the assignment returned has score 0.
C6_ScenarioDScoreZero ==
    (IsScenarioD /\ pc = "done") => out.score = Zero

\* C6 amended: in Scenario D each hand holds two instruments and pays one
\* swap, so every assignment the search holds and the one it returns have a
\* score strictly below 0.
C6_ScenarioDScoreNegative ==
    IsScenarioD =>
        /\ \A a \in LiveAssignments :
                /\ RLess(score(a, music), Zero)
                /\ \A k \in DOMAIN HandsOf(a) :
                        HandsOf(a)[k].end - HandsOf(a)[k].start = 2
        /\ out.some => RLess(out.score, Zero)

C6_Witness ==
    /\ IsScenarioD
    /\ pc = "done"
    /\ out.some
    /\ RLess(out.score, Zero)

\* C7: the score that Assignment::new reports is the key max_by_key retained,
\* the greatest final score of the runs.
C7_ReportedScoreIsBest ==
    pc = "done" =>
        /\ out.score = best.key
        /\ \A j \in DOMAIN finals : RLeq(finals[j], out.score)

\* C8: with num_players = 0 the division len / num_hands is never evaluated.
C8_ZeroPlayersRejected ==
    num_players = 0 => fault # "div_by_zero"

\* C9: two invocations with the same schedule, player count and seed return
\* the same players and the same score, whatever the key orders were.
C9_Determinism ==
    pc = "done" => (twin.out = out /\ out.some)

C9_Witness ==
    /\ pc = "done"
    /\ twin.keys_differed
    /\ NumWhackers = 3
    /\ num_players = 1
    /\ twin.out = out
    /\ out.some

\* the hands of a hold h - n empty ranges and n ranges of one instrument
SingleOrEmptyHands(a) ==
    LET hands == HandsOf(a) IN
    /\ Cardinality({k \in DOMAIN hands : hands[k].end = hands[k].start})
            = NumHands - NumWhackers
    /\ Cardinality({k \in DOMAIN hands : hands[k].end = hands[k].start + 1})
            = NumWhackers

\* C10: with 1 <= n < h the search never faults, every assignment it holds
\* has h - n empty hands and n hands of one instrument and scores 0, and the
\* score returned is 0.
C10_FewerInstrumentsThanHands ==
    (1 <= NumWhackers /\ NumWhackers < NumHands) =>
        /\ pc # "panic"
        /\ fault = "none"
        /\ \A a \in LiveAssignments :
                SingleOrEmptyHands(a) /\ score(a, music) = Zero
        /\ \A j \in DOMAIN finals : finals[j] = Zero
        /\ out.some =>
              /\ out.score = Zero
              /\ \A p \in DOMAIN out.players : \A h \in {1, 2} :
                    Len(out.players[p][h]) <= 1

C10_Witness ==
    /\ pc = "done"
    /\ out.some
    /\ NumWhackers = 3
    /\ num_players = 2
    /\ out.score = Zero
    /\ SingleOrEmptyHands(best.assignment)

\* the hands returned, in output order: player 1 left, player 1 right, ...
OutHands == FlatHands(out.players)

\* the lowest instrument of a returned hand; an empty hand sorts first
Lowest(h) == IF h = <<>> THEN <<0, 0>> ELSE <<1, h[1]>>

\* C11: in the players returned every hand lists its instruments in strictly
\* ascending pitch order; in output order the hands' lowest instruments are
\* non-decreasing with the empty hands first; so every left hand's lowest is
\* not above its right hand's, and the players are ordered by their left
\* hand's lowest instrument.
C11_OutputOrdering ==
    (pc = "done" /\ out.some) =>
        /\ \A k \in DOMAIN OutHands : \A i, j \in DOMAIN OutHands[k] :
                i < j => OutHands[k][i] < OutHands[k][j]
        /\ \A k, l \in DOMAIN OutHands :
                k < l => ~KeyLess(Lowest(OutHands[l]), Lowest(OutHands[k]))
        /\ \A p \in DOMAIN out.players :
                ~KeyLess(Lowest(out.players[p][2]), Lowest(out.players[p][1]))
        /\ \A p, q \in DOMAIN out.players :
                p < q => ~KeyLess(Lowest(out.players[q][1]),
                                  Lowest(out.players[p][1]))

C11_Witness ==
    /\ pc = "done"
    /\ out.some
    /\ num_players = 2
    /\ NumWhackers = 3
    /\ OutHands[1] = <<>>
    /\ \A k \in 2..4 : Len(OutHands[k]) = 1
    /\ OutHands[2][1] < OutHands[3][1]
    /\ OutHands[3][1] < OutHands[4][1]

\* C12: make_swap applied twice with the same indices (i, j) leaves the
\* assignment (flat list, hand ranges, score) exactly as it was before the
\* first call, for both assignment types; with i = j one call already
\* changes nothing.
C12_SwapTwiceRestores ==
    /\ pc \in {"swapped_twice", "search.swapped_twice"} =>
            next_assignment = swap.before
    /\ pc = "swapped_twice" =>
            score(next_assignment, music) = score(swap.before, music)
    /\ (pc \in {"swapped", "search.swapped"}
            /\ swap.swap_idx_1 = swap.swap_idx_2) =>
            next_assignment = swap.before

C12_Witness ==
    /\ pc = "search.swapped_twice"
    /\ swap.swap_idx_1 # swap.swap_idx_2
    /\ swap.once.whackers # swap.before.whackers
    /\ swap.once.score # swap.before.score
    /\ next_assignment = swap.before

\* every hand, every player and the whole of assignment a score <= 0
ScoresNonPositive(a) ==
    /\ \A k \in DOMAIN HandsOf(a) :
            RLeq(score_for_hand(Slice(a.whackers, HandsOf(a)[k]), music), Zero)
    /\ \A p \in DOMAIN a.players :
            RLeq(score_for_player(Slice(a.whackers, a.players[p][1]),
                                  Slice(a.whackers, a.players[p][2]), music),
                 Zero)
    /\ RLeq(score(a, music), Zero)

\* C13: the score of every hand, every player and every assignment the
\* search holds, the final score of every run and the score reported in the
\* output are <= 0.
C13_ScoresNonPositive ==
    /\ \A a \in LiveAssignments : ScoresNonPositive(a)
    /\ \A j \in DOMAIN finals : RLeq(finals[j], Zero)
    /\ RLeq(initial_score, Zero)
    /\ RLeq(best.key, Zero)
    /\ RLeq(out.score, Zero)

C13_Witness ==
    /\ pc = "done"
    /\ out.some
    /\ RLess(out.score, Zero)
    /\ RLess(score_for_hand(out.players[1][1], music), Zero)
    /\ ScoresNonPositive(best.assignment)

\* C14: for a non-empty schedule and num_players >= 1 every iteration of
\* gradient_ascent counts one step, accepted or not; a run is left only
\* after all NumSteps steps (1000 in the code); the runs are left for the
\* presentation only after all NumRuns runs (100 in the code); and the search
\* does reach its end, with exactly NumRuns runs finished.
C14_TerminationByCount ==
    /\ [][(pc = "loop" /\ pc' = "loop") => step' = step + 1]_vars
    /\ [][(pc = "loop" /\ pc' \in {"random", "present"}) =>
                step = NumSteps /\ run' = run + 1]_vars
    /\ [][(pc = "loop" /\ pc' = "present") => run' = NumRuns]_vars
    /\ (NumWhackers >= 1 /\ num_players >= 1) ~>
            (pc = "done" /\ run = NumRuns /\ Len(finals) = NumRuns)

C14_Witness ==
    /\ pc = "done"
    /\ NumWhackers >= 2
    /\ num_players >= 1
    /\ run = NumRuns
    /\ Len(finals) = NumRuns
    /\ \E j \in DOMAIN finals : RLess(finals[j], Zero)

\* the orders in which the instruments of hand h can be listed
HandOrders(h) == Orders({h[i] : i \in DOMAIN h})

\* C15: score_for_hand returns the same cost for every order in which the
\* instruments of the hand are listed, hits at one timestamp included.
C15_HandCostOrderIndependent ==
    pc = "scored" =>
        \A h \in HandOrders(hand) : score_for_hand(h, music) = hand_score

\* the position in hand h of the instrument whose first hit is earliest, the
\* first such position when several share the earliest first hit
EarliestFirstHit(h, m) ==
    CHOOSE p \in DOMAIN h : \A q \in DOMAIN h :
        \/ m[h[p]][1].timestamp < m[h[q]][1].timestamp
        \/ m[h[p]][1].timestamp = m[h[q]][1].timestamp /\ p <= q

\* C16: in a hand of two or more instruments the instrument held at the start
\* is the one whose first hit is earliest, the first in the hand's order among
\* those tied for it; it is the instrument of the first event the merge
\* consumes, so the first event is not charged as a swap.
C16_InitiallyHeldIsFirstPlayed ==
    (pc = "scored" /\ Len(hand) >= 2) =>
        /\ FirstHeldIdx(hand, music) = EarliestFirstHit(hand, music)
        /\ FirstHeldIdx(hand, music) =
                NextIterFrom(hand, music, [i \in DOMAIN hand |-> 1], 1, 0)

\* b is a with the contents of two positions of the flat list exchanged
\* (possibly the same position twice) and the same hand ranges
OneSwapApart(a, b) ==
    /\ b.players = a.players
    /\ \E i, j \in DOMAIN a.whackers :
            b.whackers = [a.whackers EXCEPT ![i] = a.whackers[j],
                                            ![j] = a.whackers[i]]

\* C17: in every iteration of gradient_ascent the proposal is the current
\* assignment with one make_swap applied; a proposal of strictly greater
\* score becomes the current assignment; after any other proposal the current
\* assignment, flat list and ranges, is exactly what it was.
C17_GreedyAcceptance ==
    [][(pc = "loop" /\ pc' = "loop") =>
            \/ /\ assignment' = assignment
               /\ OneSwapApart(assignment, next_assignment')
               /\ RLeq(score(next_assignment', music), score(assignment, music))
            \/ /\ assignment' # assignment
               /\ OneSwapApart(assignment, assignment')
               /\ RLess(score(assignment, music), score(assignment', music))
               /\ next_assignment' = assignment]_vars

\* a proposal of equal score that differs from the current assignment has
\* just been rejected
C17_Witness ==
    /\ pc = "loop"
    /\ step >= 1
    /\ next_assignment # assignment
    /\ OneSwapApart(assignment, next_assignment)
    /\ score(next_assignment, music) = score(assignment, music)
    /\ RLess(score(assignment, music), Zero)

\* number of instruments in the k-th hand of a
HandSize(a, k) == HandsOf(a)[k].end - HandsOf(a)[k].start

\* hand i (0-based) holds floor(n/h) instruments, one more if i < n mod h
EvenSizes(a) ==
    \A k \in DOMAIN HandsOf(a) :
        HandSize(a, k) = (NumWhackers \div NumHands)
                            + (IF k - 1 < NumWhackers % NumHands THEN 1 ELSE 0)

\* C18: the random start of a run over n instruments and h = 2 * num_players
\* >= 2 hands gives hand i (0-based, in range order) floor(n/h) instruments
\* and one more if i < n mod h; the ranges follow one another from 0 to n;
\* no hand is empty unless n < h.
C18_InitialDistribution ==
    (pc = "loop" /\ step = 0) =>
        LET hands == HandsOf(assignment) IN
        /\ Len(hands) = NumHands
        /\ EvenSizes(assignment)
        /\ hands[1].start = 0
        /\ hands[Len(hands)].end = NumWhackers
        /\ \A k \in 1..(Len(hands) - 1) : hands[k].end = hands[k + 1].start
        /\ NumWhackers >= NumHands =>
                \A k \in DOMAIN hands : HandSize(assignment, k) >= 1

C18_Witness ==
    /\ pc = "loop"
    /\ step = 0
    /\ NumWhackers = 3
    /\ num_players = 1
    /\ HandSize(assignment, 1) = 2
    /\ HandSize(assignment, 2) = 1

\* the hand sizes listed in sizes are floor(n/h) for h - (n mod h) hands and
\* floor(n/h) + 1 for n mod h hands
EvenSizeCounts(sizes) ==
    /\ Len(sizes) = NumHands
    /\ Cardinality({k \in DOMAIN sizes : sizes[k] = NumWhackers \div NumHands})
            = NumHands - (NumWhackers % NumHands)
    /\ Cardinality({k \in DOMAIN sizes :
                        sizes[k] = (NumWhackers \div NumHands) + 1})
            = NumWhackers % NumHands

\* C19: make_swap never changes a hand's range, so in every state of a run
\* every hand has the size random gave it, and the assignment retained, its
\* presentation and the players returned still have floor(n/h) instruments
\* in h - (n mod h) hands and one more in n mod h hands.
C19_FixedHandSizes ==
    /\ [][(pc = "loop" /\ pc' = "loop") =>
                /\ assignment'.players = assignment.players
                /\ next_assignment'.players = assignment.players]_vars
    /\ [](pc = "loop" => EvenSizes(assignment) /\ EvenSizes(next_assignment))
    /\ [](best.some =>
            EvenSizeCounts([k \in DOMAIN HandsOf(best.assignment) |->
                                HandSize(best.assignment, k)]))
    /\ [](out.some =>
            EvenSizeCounts([k \in DOMAIN OutHands |-> Len(OutHands[k])]))

C19_Witness ==
    /\ pc = "done"
    /\ out.some
    /\ NumWhackers = 3
    /\ num_players = 1
    /\ Len(OutHands[1]) = 1
    /\ Len(OutHands[2]) = 2
    /\ HandSize(best.assignment, 1) = 1

\* the score of HandAssignment a recomputed from its flat list
Recomputed(a) == SumHands(a.hands, a.whackers, Ctx, 1)

\* C20: the score cached in a HandAssignment equals the sum over its hands of
\* score_for_hand recomputed from its flat list, in the assignments of
\* gradient_ascent after random and after every iteration, and in the
\* assignment retained; so best_score in the SearchResult is the recomputed
\* score of the assignment selected.
C20_CachedScoreConsistent ==
    /\ pc = "search.loop" =>
            /\ assignment.score = Recomputed(assignment)
            /\ next_assignment.score = Recomputed(next_assignment)
    /\ best.some =>
            /\ best.assignment.score = Recomputed(best.assignment)
            /\ best.key = best.assignment.score
    /\ out.some => out.best_score = Recomputed(best.assignment)

C20_Witness ==
    /\ pc = "search.done"
    /\ out.some
    /\ RLess(out.best_score, Zero)
    /\ out.best_score = Recomputed(best.assignment)
    /\ \E j \in DOMAIN finals : RLess(finals[j], out.best_score)

\* C21: in the map load_whacks returns, every note that is a key has at least
\* one whack and its whacks are in non-decreasing order of timestamp, whatever
\* parts, rests, notes and chord notes were read.
C21_LoadedWhacksSortedNonEmpty ==
    /\ pc = "loaded" =>
            \A n \in DOMAIN music :
                /\ Len(music[n]) >= 1
                /\ \A i, j \in DOMAIN music[n] :
                        i < j => music[n][i].timestamp <= music[n][j].timestamp
    /\ pc = "load" => \A n \in DOMAIN loader.whacks : Len(loader.whacks[n]) >= 1

\* a note played in two parts, pushed out of time order and returned sorted;
\* a rest and a chord note were read
C21_Witness ==
    /\ pc = "loaded"
    /\ loader.part_idx = 2
    /\ Len(loader.note_tags) > loader.whacks_loaded_so_far
    /\ \E n \in DOMAIN music :
            /\ Len(music[n]) >= 2
            /\ music[n] # loader.whacks[n]
            /\ music[n][1].timestamp <= music[n][2].timestamp
    /\ \E n \in DOMAIN music : \E i \in DOMAIN music[n] :
            music[n][i].chord_note_idx # music[n][i].note_idx

\* the whacks pushed so far, with the note they were pushed for
PushedWhacks ==
    UNION {{[note |-> n, whack |-> loader.whacks[n][i]] :
                i \in DOMAIN loader.whacks[n]} : n \in DOMAIN loader.whacks}

\* the number of <note> elements read before the element of whack w
TagsBefore(w) == loader.tags[w.note_idx + 1]

RECURSIVE SwapsCharged(_, _, _, _)
\* the number of hits at which the merge of score_for_hand finds
\* last_played_iter_idx != next_iter_idx and subtracts a swap
SwapsCharged(whackers_in_hand, m, cur, last_played_iter_idx) ==
    LET next_iter_idx == NextIterFrom(whackers_in_hand, m, cur, 1, 0) IN
    IF next_iter_idx = 0 THEN 0
    ELSE (IF last_played_iter_idx # next_iter_idx THEN 1 ELSE 0)
            + SwapsCharged(whackers_in_hand, m,
                           [cur EXCEPT ![next_iter_idx] = @ + 1], next_iter_idx)

\* the latest hit of the schedule (ms)
LastHit ==
    LET times == UNION {{music[n][i].timestamp : i \in DOMAIN music[n]} :
                            n \in DOMAIN music}
    IN IF times = {} THEN 0 ELSE CHOOSE t \in times : \A u \in times : u <= t

\* a hand of k >= 2 instruments is charged at least k - 1 swaps, each of at
\* least 1 / (the length of the piece), and so costs less than 0
UnavoidableSwaps(whackers_in_hand) ==
    LET k == Len(whackers_in_hand) IN
    (k >= 2 /\ \A i \in 1..k : Len(music[whackers_in_hand[i]]) >= 1) =>
        /\ SwapsCharged(whackers_in_hand, music, [i \in 1..k |-> 1],
                        FirstHeldIdx(whackers_in_hand, music)) >= k - 1
        /\ RLeq(score_for_hand(whackers_in_hand, music),
                Rat(-1000 * (k - 1),
                    IF LastHit < MinSwapMs THEN MinSwapMs ELSE LastHit))
        /\ RLess(score_for_hand(whackers_in_hand, music), Zero)

\* C23: every hand that holds k >= 2 instruments, each with a non-empty hit
\* sequence, is charged at least k - 1 swaps and costs strictly less than 0;
\* so an assignment the search holds scores 0 only if each of its hands holds
\* at most one instrument, and then n <= h.
C23_UnavoidableSwaps ==
    \A a \in LiveAssignments :
        /\ \A k \in DOMAIN HandsOf(a) :
                UnavoidableSwaps(Slice(a.whackers, HandsOf(a)[k]))
        /\ score(a, music) = Zero =>
              /\ \A k \in DOMAIN HandsOf(a) :
                    Len(Slice(a.whackers, HandsOf(a)[k])) <= 1
              /\ NumWhackers <= NumHands

C23_Witness ==
    /\ pc = "loop"
    /\ NumWhackers = 3
    /\ NumHands = 2
    /\ \E k \in DOMAIN HandsOf(assignment) :
            LET whackers_in_hand == Slice(assignment.whackers, HandsOf(assignment)[k]) IN
            /\ Len(whackers_in_hand) = 2
            /\ SwapsCharged(whackers_in_hand, music, <<1, 1>>,
                            FirstHeldIdx(whackers_in_hand, music)) >= 2
            /\ RLess(score_for_hand(whackers_in_hand, music), Zero)
    /\ RLess(score(assignment, music), Zero)

\* the tempo changes at or before start that no other such change follows in
\* time; several only when changes share a timestamp
LatestChanges(bpm_changes, start) ==
    {i \in DOMAIN bpm_changes :
        /\ bpm_changes[i].start <= start
        /\ \A j \in DOMAIN bpm_changes :
                bpm_changes[j].start <= start =>
                    bpm_changes[j].start <= bpm_changes[i].start}

\* the tempo the lookup is to find: that of a latest change at or before
\* start, or the default when there is none
ExpectedBpm(bpm_changes, start) ==
    IF LatestChanges(bpm_changes, start) = {} THEN {DefaultBpm}
    ELSE {bpm_changes[i].bpm : i \in LatestChanges(bpm_changes, start)}

\* C24: in every part of the score, note_duration takes the tempo of the
\* latest tempo change whose timestamp is <= the start of the note, and the
\* default of 120 bpm when no tempo change lies at or before that start.
C24_TempoLookup ==
    loader.running =>
        (loader.lookup.some =>
            loader.lookup.bpm \in
                ExpectedBpm(loader.lookup.bpm_changes, loader.lookup.start))

====
